---- MODULE Spec2Model ----
(***************************************************************************)
(* Session selection of go-livepeer (server/selection.go).                 *)
(*                                                                         *)
(* MinLSSelector keeps the sessions without a latency score in a slice     *)
(* (unknownSessions) and those with one in a binary min-heap               *)
(* (knownSessions, a sessHeap driven by container/heap).  Select returns   *)
(* the heap's minimum when it is good enough (score <= minLS) or when no   *)
(* unknown session is held; otherwise it draws an unknown session, by      *)
(* stake weight when a stakeReader is configured and in slice order when   *)
(* none is.                                                                *)
(*                                                                         *)
(* LIFOSelector is a slice: Add puts its sessions in front, Complete puts  *)
(* one at the back, Select takes the one at the back.                      *)
(*                                                                         *)
(* A session is a pointer: it is modelled by its identity (1..NumSessions).*)
(* Its two fields the selector reads are LatencyScore and the recipient    *)
(* address of its ticket parameters.  An entry of the heap is shown with   *)
(* the score its session carries: [sess, LatencyScore].  Slices are        *)
(* sequences; the Go index i is the TLA+ index i+1.                        *)
(***************************************************************************)
EXTENDS Integers, Sequences, FiniteSets

\* ------------------------------------------------------------- bounds
NumSessions == 3
MaxScore == 3
MaxStake == 1
MaxBatch == 2

\* The callers below keep at most MaxHeld entries in the selector.
MaxHeld == NumSessions

Nil == 0
Sessions == 1..NumSessions
\* An orchestrator's address; two sessions go to each orchestrator.
Addrs == 1..((NumSessions + 1) \div 2)
Scores == 1..MaxScore
\* A stake is an int64; the oracle's contract says non-negative, the code
\* does not check it: -1 stands for the negative replies.
StakeVals == (-1)..MaxStake

VARIABLES
    unknownSessions, \* MinLSSelector.unknownSessions: the slice, in order
    knownSessions,   \* MinLSSelector.knownSessions: the heap's array, each
                     \* session with its BroadcastSession.LatencyScore
    stakeRdr,        \* MinLSSelector.stakeRdr: TRUE a reader, FALSE nil
    minLS,           \* MinLSSelector.minLS
    last,            \* the last call on the selector and what it returned
    arrivals,        \* history: the unknown sessions held, in order of Add
    completions,     \* history: the known sessions held, in order of Complete
    outstanding,     \* history: per session, the times it was given to Add
                     \* or Complete minus the times Select returned it,
                     \* since NewMinLSSelector or the last Clear
    ctorStakeRdr,    \* history: the stakeRdr NewMinLSSelector was given
    draining,        \* the caller has stopped feeding the MinLSSelector and
                     \* only calls Select, the oracle keeping to its contract
    lifo,            \* the LIFOSelector: the slice, in order
    lifoLast         \* the last call on the LIFOSelector and how it ended

\* The MinLSSelector, its caller, and what is recorded about it.
minLSVars == <<unknownSessions, knownSessions, stakeRdr, minLS, last,
               arrivals, completions, outstanding, ctorStakeRdr, draining>>

\* The LIFOSelector and what is recorded about it.
lifoVars == <<lifo, lifoLast>>

vars == <<minLSVars, lifoVars>>

\* ------------------------------------------------------------ helpers
Range(q) == {q[i] : i \in 1..Len(q)}

Count(q, x) == Cardinality({i \in 1..Len(q) : q[i] = x})

\* q without its first occurrence of x.
RECURSIVE RemoveFirst(_, _)
RemoveFirst(q, x) ==
    IF q = <<>> THEN <<>>
    ELSE IF Head(q) = x THEN Tail(q)
    ELSE <<Head(q)>> \o RemoveFirst(Tail(q), x)

\* Go's integer division truncates toward zero.
GoDiv(a, b) == IF a >= 0 THEN a \div b ELSE -((-a) \div b)

\* ethcommon.BytesToAddress(sess.OrchestratorInfo.TicketParams.Recipient):
\* sessions of one orchestrator share the address.
Recipient(sess) == (sess + 1) \div 2

\* ----------------------------------------------------------- sessHeap
\* A comparison the wrong way round: a max-heap.
LessFlipped(h, i, j) == h[i + 1].LatencyScore > h[j + 1].LatencyScore

Less(h, i, j) == h[i + 1].LatencyScore < h[j + 1].LatencyScore

\* A swap that overwrites h[i] and then copies it back.
SwapOverwrite(h, i, j) == [h EXCEPT ![i + 1] = h[j + 1]]

Swap(h, i, j) == [h EXCEPT ![i + 1] = h[j + 1], ![j + 1] = h[i + 1]]

\* sessHeap.Peek: the nil interface is the entry of no session.
NilEntry == [sess |-> Nil, LatencyScore |-> 0]

Peek(h) == IF Len(h) = 0 THEN NilEntry ELSE h[1]

\* container/heap.up
RECURSIVE up(_, _)
up(h, j) ==
    LET i == GoDiv(j - 1, 2)
    IN  IF i = j \/ ~Less(h, j, i) THEN h
        ELSE up(Swap(h, i, j), i)

\* container/heap.down
RECURSIVE down(_, _, _)
down(h, i, n) ==
    LET j1 == 2 * i + 1
    IN  IF j1 >= n \/ j1 < 0 THEN h
        ELSE LET j2 == j1 + 1
                 j == IF j2 < n /\ Less(h, j2, j1) THEN j2 ELSE j1
             IN  IF ~Less(h, j, i) THEN h
                 ELSE down(Swap(h, i, j), j, n)

\* sessHeap.Push called in place of heap.Push: no sift-up.
appendOnly(h, x) == Append(h, x)

\* container/heap.Push: sessHeap.Push appends, then up from the last index.
heapPush(h, x) == up(Append(h, x), Len(h))

\* container/heap.Pop: swap the root with the last, sift the new root down
\* over the first n elements, then sessHeap.Pop takes the last element off.
heapPop(h) ==
    LET n == Len(h) - 1
        sifted == down(Swap(h, 0, n), 0, n)
    IN  [x |-> sifted[n + 1], heap |-> SubSeq(sifted, 1, n)]

\* ------------------------------------------------------ stake oracle
\* A reply of stakeReader.Stakes: a map from addresses to int64.  Which
\* addresses it holds is the oracle's choice.
Replies == UNION {[D -> StakeVals] : D \in SUBSET Addrs}

\* stakes[addr] of a Go map: the zero value for a missing key.
StakeOf(stakes, addr) == IF addr \in DOMAIN stakes THEN stakes[addr] ELSE 0

RECURSIVE SumOver(_, _)
SumOver(stakes, D) ==
    IF D = {} THEN 0
    ELSE LET a == CHOOSE x \in D : TRUE
         IN  stakes[a] + SumOver(stakes, D \ {a})

\* totalStake: the sum over the entries of the reply (not over the sessions).
totalStake(stakes) == SumOver(stakes, DOMAIN stakes)

\* r: rand.Int63n(totalStake) when totalStake > 0, else 0.
Draws(total) == IF total > 0 THEN 0..(total - 1) ELSE {0}

\* A slice filled with the address of the first session only.
addrsOfFirst(unk) == [i \in 1..Len(unk) |-> Recipient(unk[1])]

\* addrs[i] of the slice built from unknownSessions.
addrs(unk) == [i \in 1..Len(unk) |-> Recipient(unk[i])]

\* A loop that falls back on the last session when it ends without one.
RECURSIVE walkFallback(_, _, _, _)
walkFallback(unk, stakes, r, i) ==
    IF i > Len(unk) THEN Len(unk)
    ELSE LET r2 == r - StakeOf(stakes, addrs(unk)[i])
         IN  IF r2 <= 0 THEN i ELSE walkFallback(unk, stakes, r2, i + 1)

\* The loop with the test r < 0 in place of r <= 0.
RECURSIVE walkStrict(_, _, _, _)
walkStrict(unk, stakes, r, i) ==
    IF i > Len(unk) THEN 0
    ELSE LET r2 == r - StakeOf(stakes, addrs(unk)[i])
         IN  IF r2 < 0 THEN i ELSE walkStrict(unk, stakes, r2, i + 1)

\* The loop of the weighted selection from index i on with running value r:
\* the (1-based) index of the first session whose stake brings r to <= 0,
\* 0 when the loop ends without one.
RECURSIVE walk(_, _, _, _)
walk(unk, stakes, r, i) ==
    IF i > Len(unk) THEN 0
    ELSE LET r2 == r - StakeOf(stakes, addrs(unk)[i])
         IN  IF r2 <= 0 THEN i ELSE walk(unk, stakes, r2, i + 1)

\* A loop that starts at the second session.
WinnerIndexSkipFirst(unk, stakes, r) == walk(unk, stakes, r, 2)

WinnerIndex(unk, stakes, r) == walk(unk, stakes, r, 1)

\* A removal that cuts the last element off without the swap.
removeLast(unk, i) == SubSeq(unk, 1, Len(unk) - 1)

\* Swap index i with the last and cut the last element off.
removeSwapLast(unk, i) ==
    LET n == Len(unk)
    IN  SubSeq([unk EXCEPT ![n] = unk[i], ![i] = unk[n]], 1, n - 1)

\* An off-chain selection from the wrong end.
popBack(unk) ==
    [sess |-> unk[Len(unk)], unknown |-> SubSeq(unk, 1, Len(unk) - 1),
     oracle |-> "skip"]

\* Off-chain mode: the first session, and the slice from index 1 on.
popFront(unk) == [sess |-> unk[1], unknown |-> Tail(unk), oracle |-> "skip"]

\* A failed read that still consumes the first session.
stakesFailedDropping(unk) ==
    [sess |-> Nil, unknown |-> Tail(unk), oracle |-> "fail"]

\* The oracle call failed: nil, and nothing is touched.
stakesFailed(unk) == [sess |-> Nil, unknown |-> unk, oracle |-> "fail"]

\* MinLSSelector.selectUnknownSession, given what the oracle and the random
\* source produce on this call: err (the oracle call fails), stakes (its
\* reply otherwise) and r (the draw).  oracle tells whether the oracle was
\* called: "skip" (not called), "fail", "ok".
selectUnknownSession(unk, rdr, err, stakes, r) ==
    IF Len(unk) = 0 THEN [sess |-> Nil, unknown |-> unk, oracle |-> "skip"]
    ELSE IF ~rdr THEN popFront(unk)
    ELSE IF err THEN stakesFailed(unk)
    ELSE LET i == WinnerIndex(unk, stakes, r)
         IN  IF i = 0 THEN [sess |-> Nil, unknown |-> unk, oracle |-> "ok"]
             ELSE [sess |-> unk[i], unknown |-> removeSwapLast(unk, i),
                   oracle |-> "ok"]

\* --------------------------------------------------------- operations
\* The sessions the heap holds, in the order of its array.
KnownSess == [i \in 1..Len(knownSessions) |-> knownSessions[i].sess]

\* MinLSSelector.Size
Size == Len(unknownSessions) + Len(knownSessions)

AllZero(stakes) == \A a \in DOMAIN stakes : stakes[a] = 0

Given(f, q) == [s \in Sessions |-> f[s] + Count(q, s)]

Returned(f, sess) == [f EXCEPT ![sess] = f[sess] - 1]

\* last: op, the call; sess, the session Select returned (Nil: none) and
\* score, the LatencyScore it carries when it comes from the heap; from,
\* the collection it was taken from; oracle, whether Stakes was called and
\* how it ended; zero, whether every stake of the reply was zero; query,
\* the addresses Stakes was called with; dropped, the sessions a Clear
\* found in the selector.
NoCall == [op |-> "New", sess |-> Nil, score |-> 0, from |-> "none",
           oracle |-> "skip", zero |-> FALSE, query |-> <<>>, dropped |-> 0]

\* An entry of the LIFOSelector's slice is a session; it is shown with
\* where it came from: via, the call that brought it ("Add", "Complete");
\* at, the rank of that call among the calls whose entries are still held
\* (1 the earliest); pos, its index in the argument of that Add (0 for
\* Complete).
NoEntry == [sess |-> Nil, via |-> "none", at |-> 0, pos |-> 0]

\* lifoLast: op, the call ("Absent": no LIFOSelector exists); entry, the
\* entry Select returned or Complete stored; panic, whether the call ended
\* in a run-time panic.
NoLIFO == [op |-> "Absent", entry |-> NoEntry, panic |-> FALSE]

\* NewMinLSSelector(stakeRdr, minLS)
Init ==
    /\ unknownSessions = <<>>
    /\ knownSessions = <<>>
    /\ stakeRdr \in BOOLEAN
    /\ minLS \in 1..(MaxScore - 1)
    /\ last = NoCall
    /\ arrivals = <<>>
    /\ completions = <<>>
    /\ outstanding = [s \in Sessions |-> 0]
    /\ ctorStakeRdr = stakeRdr
    /\ draining = FALSE
    /\ lifo = <<>>
    /\ lifoLast = NoLIFO

\* An Add that puts the sessions in front of the slice.
AddFront(sessions) ==
    /\ unknownSessions' = sessions \o unknownSessions
    /\ arrivals' = arrivals \o sessions
    /\ outstanding' = Given(outstanding, sessions)
    /\ last' = [NoCall EXCEPT !.op = "Add"]
    /\ UNCHANGED <<knownSessions, stakeRdr, minLS, completions>>
    /\ UNCHANGED <<ctorStakeRdr, draining, lifoVars>>

\* MinLSSelector.Add(sessions)
Add(sessions) ==
    /\ unknownSessions' = unknownSessions \o sessions
    /\ arrivals' = arrivals \o sessions
    /\ outstanding' = Given(outstanding, sessions)
    /\ last' = [NoCall EXCEPT !.op = "Add"]
    /\ UNCHANGED <<knownSessions, stakeRdr, minLS, completions>>
    /\ UNCHANGED <<ctorStakeRdr, draining, lifoVars>>

\* MinLSSelector.Complete(sess), sess carrying the latency score ls.
Complete(sess, ls) ==
    /\ knownSessions' =
           heapPush(knownSessions, [sess |-> sess, LatencyScore |-> ls])
    /\ completions' = Append(completions, sess)
    /\ outstanding' = Given(outstanding, <<sess>>)
    /\ last' = [NoCall EXCEPT !.op = "Complete"]
    /\ UNCHANGED <<unknownSessions, stakeRdr, minLS, arrivals>>
    /\ UNCHANGED <<ctorStakeRdr, draining, lifoVars>>

\* The branch of Select that draws from unknownSessions.
SelectUnknown(err, stakes, r) ==
    LET res == selectUnknownSession(unknownSessions, stakeRdr, err, stakes, r)
    IN  /\ unknownSessions' = res.unknown
        /\ arrivals' = IF res.sess = Nil THEN arrivals
                       ELSE RemoveFirst(arrivals, res.sess)
        /\ outstanding' = IF res.sess = Nil THEN outstanding
                          ELSE Returned(outstanding, res.sess)
        /\ last' = [op |-> "Select", sess |-> res.sess, score |-> 0,
                    from |-> IF res.sess = Nil THEN "none" ELSE "unknown",
                    oracle |-> res.oracle,
                    zero |-> res.oracle = "ok" /\ AllZero(stakes),
                    query |-> IF res.oracle = "skip" THEN <<>>
                              ELSE addrs(unknownSessions),
                    dropped |-> 0]
        /\ UNCHANGED <<knownSessions, completions>>

\* The branch of Select that pops the heap.
SelectKnown ==
    LET res == heapPop(knownSessions)
    IN  /\ knownSessions' = res.heap
        /\ completions' = RemoveFirst(completions, res.x.sess)
        /\ outstanding' = Returned(outstanding, res.x.sess)
        /\ last' = [NoCall EXCEPT !.op = "Select", !.sess = res.x.sess,
                                  !.score = res.x.LatencyScore,
                                  !.from = "known"]
        /\ UNCHANGED <<unknownSessions, arrivals>>

\* The threshold test the wrong way round.
RoutesToUnknownFlipped ==
    LET x == Peek(knownSessions)
    IN  IF x.sess = Nil THEN TRUE
        ELSE x.LatencyScore < minLS /\ Len(unknownSessions) > 0

\* Whether Select goes to selectUnknownSession.
RoutesToUnknown ==
    LET x == Peek(knownSessions)
    IN  IF x.sess = Nil THEN TRUE
        ELSE x.LatencyScore > minLS /\ Len(unknownSessions) > 0

\* MinLSSelector.Select()
Select(err, stakes, r) ==
    /\ IF RoutesToUnknown THEN SelectUnknown(err, stakes, r) ELSE SelectKnown
    /\ UNCHANGED <<stakeRdr, minLS, ctorStakeRdr, draining, lifoVars>>

\* A Clear that keeps the stakeRdr.
ClearKeepsOracle ==
    /\ unknownSessions' = <<>>
    /\ knownSessions' = <<>>
    /\ arrivals' = <<>>
    /\ completions' = <<>>
    /\ outstanding' = [s \in Sessions |-> 0]
    /\ last' = [NoCall EXCEPT !.op = "Clear", !.dropped = Size]
    /\ UNCHANGED <<stakeRdr, minLS, ctorStakeRdr, draining, lifoVars>>

\* A Clear that forgets to replace the heap.
ClearKeepsKnown ==
    /\ unknownSessions' = <<>>
    /\ stakeRdr' = FALSE
    /\ arrivals' = <<>>
    /\ outstanding' = [s \in Sessions |-> Count(KnownSess, s)]
    /\ last' = [NoCall EXCEPT !.op = "Clear", !.dropped = Size]
    /\ UNCHANGED <<knownSessions, completions, minLS>>
    /\ UNCHANGED <<ctorStakeRdr, draining, lifoVars>>

\* MinLSSelector.Clear()
Clear ==
    /\ unknownSessions' = <<>>
    /\ knownSessions' = <<>>
    /\ stakeRdr' = FALSE
    /\ arrivals' = <<>>
    /\ completions' = <<>>
    /\ outstanding' = [s \in Sessions |-> 0]
    /\ last' = [NoCall EXCEPT !.op = "Clear", !.dropped = Size]
    /\ UNCHANGED <<minLS, ctorStakeRdr, draining, lifoVars>>

\* ------------------------------------------------------------ callers
Held == Range(unknownSessions) \cup Range(KnownSess)

Batches(S) == UNION {[1..n -> S] : n \in 1..MaxBatch}

\* Whether this Select reaches the call of stakeRdr.Stakes.
CallsOracle == RoutesToUnknown /\ Len(unknownSessions) > 0 /\ stakeRdr

\* A Select that does not reach the oracle: nothing is drawn.
SelectOffline == ~CallsOracle /\ Select(FALSE, <<>>, 0)

\* A Select whose oracle call fails.
SelectOracleFails == CallsOracle /\ Select(TRUE, <<>>, 0)

\* A Select whose oracle call replies stakes, with the draw r.
SelectOracleReplies ==
    /\ CallsOracle
    /\ \E stakes \in Replies :
           \E r \in Draws(totalStake(stakes)) : Select(FALSE, stakes, r)

DoClear == Clear

\* A caller that hands the selector only sessions it does not hold, as the
\* session pool does.  The selector holds at most MaxHeld entries.
AddNew ==
    \E sessions \in Batches(Sessions \ Held) :
        /\ Size + Len(sessions) <= MaxHeld
        /\ \A s \in Range(sessions) : Count(sessions, s) = 1
        /\ Add(sessions)

CompleteNew ==
    \E sess \in Sessions \ Held : \E ls \in Scores :
        /\ Size < MaxHeld
        /\ Complete(sess, ls)

Next ==
    \/ AddNew
    \/ CompleteNew
    \/ SelectOffline
    \/ SelectOracleFails
    \/ SelectOracleReplies
    \/ DoClear

Spec == Init /\ [][Next]_vars

\* A caller that hands the selector any session, held or not: neither Add
\* nor Complete looks.  A session inside the heap keeps its score.
AddAny ==
    \E sessions \in Batches(Sessions) :
        /\ Size + Len(sessions) <= MaxHeld
        /\ Add(sessions)

CompleteAny ==
    \E sess \in Sessions : \E ls \in Scores :
        /\ Size < MaxHeld
        /\ \A i \in 1..Len(knownSessions) :
               knownSessions[i].sess = sess
                   => knownSessions[i].LatencyScore = ls
        /\ Complete(sess, ls)

NextAny ==
    \/ AddAny
    \/ CompleteAny
    \/ SelectOffline
    \/ SelectOracleFails
    \/ SelectOracleReplies
    \/ DoClear

SpecAnyCaller == Init /\ [][NextAny]_vars

\* ------------------------------------------------------- LIFOSelector
\* The values of at among the entries of s.
Stamps(s) == {s[i].at : i \in 1..Len(s)}

\* at, renumbered to the rank among the calls whose entries s still holds.
Ranked(s) ==
    [i \in 1..Len(s) |->
        [s[i] EXCEPT !.at = Cardinality({a \in Stamps(s) : a <= s[i].at})]]

\* The argument of a call of Add that comes after every call s remembers.
Stamped(s, sessions) ==
    [i \in 1..Len(sessions) |->
        [sess |-> sessions[i], via |-> "Add",
         at |-> Cardinality(Stamps(s)) + 1, pos |-> i]]

\* The entry of a call of Complete that comes after every call s remembers.
Completed(s, sess) ==
    [sess |-> sess, via |-> "Complete",
     at |-> Cardinality(Stamps(s)) + 1, pos |-> 0]

\* An Add that puts the sessions at the end of the list.
lifoAddBack(s, sessions) == s \o sessions

\* LIFOSelector.Add: append(sessions, *s...), the sessions in front.  (The
\* result may live in the array of the caller's slice; the caller is taken
\* not to write to that slice afterwards.)
lifoAdd(s, sessions) == sessions \o s

\* A Complete that puts the session at the front of the list.
lifoCompleteFront(s, x) == <<x>> \o s

\* LIFOSelector.Complete: append(*s, sess)
lifoComplete(s, x) == Append(s, x)

\* The bounds check of the index expression s[i] (Go index i).
InRange(s, i) == 0 <= i /\ i < Len(s)

\* A Select that takes the first session of the list.
lifoSelectFront(s) ==
    IF ~InRange(s, 0)
    THEN [panic |-> TRUE, sess |-> NoEntry, sessions |-> s]
    ELSE [panic |-> FALSE, sess |-> s[1], sessions |-> Tail(s)]

\* A Select that returns nil from an empty list.
lifoSelectNil(s) ==
    LET n == Len(s) - 1
    IN  IF ~InRange(s, n)
        THEN [panic |-> FALSE, sess |-> NoEntry, sessions |-> s]
        ELSE [panic |-> FALSE, sess |-> s[n + 1], sessions |-> SubSeq(s, 1, n)]

\* LIFOSelector.Select: sessList[last] and sessList[:last], last being
\* len(sessList) - 1.  The index -1 of an empty list is out of range: the
\* call panics before it assigns to *s.
lifoSelect(s) ==
    LET n == Len(s) - 1
    IN  IF ~InRange(s, n)
        THEN [panic |-> TRUE, sess |-> NoEntry, sessions |-> s]
        ELSE [panic |-> FALSE, sess |-> s[n + 1], sessions |-> SubSeq(s, 1, n)]

\* LIFOSelector.Size
lifoSize == Len(lifo)

\* A LIFOSelector exists and no call on it has panicked: nothing recovers
\* the panic, the program ends with it.
Running == lifoLast.op # "Absent" /\ ~lifoLast.panic

\* var sel LIFOSelector (no MinLSSelector exists)
InitLIFO ==
    /\ lifo = <<>>
    /\ lifoLast = [NoLIFO EXCEPT !.op = "New"]
    /\ unknownSessions = <<>>
    /\ knownSessions = <<>>
    /\ stakeRdr = FALSE
    /\ minLS = 1
    /\ last = [NoCall EXCEPT !.op = "Absent"]
    /\ arrivals = <<>>
    /\ completions = <<>>
    /\ outstanding = [s \in Sessions |-> 0]
    /\ ctorStakeRdr = FALSE
    /\ draining = FALSE

\* LIFOSelector.Add(sessions)
LIFOAdd(sessions) ==
    /\ Running
    /\ lifo' = lifoAdd(lifo, Stamped(lifo, sessions))
    /\ lifoLast' = [NoLIFO EXCEPT !.op = "Add"]
    /\ UNCHANGED minLSVars

\* LIFOSelector.Complete(sess)
LIFOComplete(sess) ==
    /\ Running
    /\ lifo' = lifoComplete(lifo, Completed(lifo, sess))
    /\ lifoLast' = [NoLIFO EXCEPT !.op = "Complete",
                                 !.entry = Completed(lifo, sess)]
    /\ UNCHANGED minLSVars

\* LIFOSelector.Select()
LIFOSelect ==
    LET res == lifoSelect(lifo)
    IN  /\ Running
        /\ lifo' = Ranked(res.sessions)
        /\ lifoLast' = [op |-> "Select", entry |-> res.sess,
                        panic |-> res.panic]
        /\ UNCHANGED minLSVars

\* LIFOSelector.Clear()
LIFOClear ==
    /\ Running
    /\ lifo' = <<>>
    /\ lifoLast' = [NoLIFO EXCEPT !.op = "Clear"]
    /\ UNCHANGED minLSVars

\* A caller of the LIFOSelector: any sessions, at most MaxHeld entries held.
LIFOAddAny ==
    \E sessions \in Batches(Sessions) :
        /\ lifoSize + Len(sessions) <= MaxHeld
        /\ LIFOAdd(sessions)

LIFOCompleteAny ==
    \E sess \in Sessions :
        /\ lifoSize < MaxHeld
        /\ LIFOComplete(sess)

LIFODoSelect == LIFOSelect

LIFODoClear == LIFOClear

NextLIFO ==
    \/ LIFOAddAny
    \/ LIFOCompleteAny
    \/ LIFODoSelect
    \/ LIFODoClear

SpecLIFO == InitLIFO /\ [][NextLIFO]_vars

\* A BroadcastSessionsSelector: one selector, of either implementation,
\* under the calls of its caller.
InitEither == Init \/ InitLIFO

\* The selector is a MinLSSelector.
IsMinLS == last.op # "Absent"

NextEither ==
    \/ IsMinLS /\ AddNew
    \/ IsMinLS /\ CompleteNew
    \/ IsMinLS /\ SelectOffline
    \/ IsMinLS /\ SelectOracleFails
    \/ IsMinLS /\ SelectOracleReplies
    \/ IsMinLS /\ DoClear
    \/ LIFOAddAny
    \/ LIFOCompleteAny
    \/ LIFODoSelect
    \/ LIFODoClear

SpecEither == InitEither /\ [][NextEither]_vars

\* ------------------------------------------------------------- claims
\* Times session s is held, in either collection.
HeldCount(s) == Count(unknownSessions, s) + Count(KnownSess, s)

\* A step of Select (every call records itself in last).
SelectStep == last'.op = "Select"

\* The least score in a non-empty heap array, wherever it sits.
MinScore(h) ==
    CHOOSE m \in {h[i].LatencyScore : i \in 1..Len(h)} :
        \A i \in 1..Len(h) : m <= h[i].LatencyScore

\* The entries of h equal to x.
Copies(h, x) == Cardinality({i \in 1..Len(h) : h[i] = x})

\* C1: no loss and no duplication.  With a caller that adds and completes
\* sessions the selector does not hold, every session is held exactly as
\* often as it was given and not yet returned; so once Select has drained
\* the selector (Size() = 0) every session given was returned exactly once
\* and none was returned that was not given.
C1_NoLossNoDuplication ==
    /\ \A s \in Sessions : outstanding[s] = HeldCount(s)
    /\ Size = 0 => \A s \in Sessions : outstanding[s] = 0

\* C1, its case: Select has just drained a selector with an oracle, the
\* last session coming from the stake-weighted draw.
C1_Witness ==
    /\ Size = 0
    /\ last.op = "Select"
    /\ last.from = "unknown"
    /\ last.oracle = "ok"

\* C2 as stated: when every known score is above minLS and an unknown
\* session is held, Select returns an unknown session (the first one when no
\* oracle is configured).
C2_ReturnsUnknown ==
    [][(/\ SelectStep
        /\ Len(knownSessions) > 0
        /\ MinScore(knownSessions) > minLS
        /\ Len(unknownSessions) > 0)
       => /\ last'.from = "unknown"
          /\ last'.sess \in Range(unknownSessions)
          /\ ~stakeRdr => last'.sess = unknownSessions[1]]_vars

\* C2, amended: in that case Select never returns a known session and
\* leaves the heap as it is; it returns an unknown session, which it
\* removes, or nil with unknownSessions untouched when the oracle was
\* called and failed or its reply let the draw match no session.  With no
\* oracle configured it returns the first unknown session.
C2_NeverKnown ==
    [][(/\ SelectStep
        /\ Len(knownSessions) > 0
        /\ MinScore(knownSessions) > minLS
        /\ Len(unknownSessions) > 0)
       => /\ knownSessions' = knownSessions
          /\ last'.from # "known"
          /\ \/ /\ last'.from = "unknown"
                /\ last'.sess \in Range(unknownSessions)
                /\ Len(unknownSessions') = Len(unknownSessions) - 1
             \/ /\ last'.sess = Nil
                /\ stakeRdr
                /\ last'.oracle \in {"fail", "ok"}
                /\ unknownSessions' = unknownSessions
          /\ ~stakeRdr => last'.sess = unknownSessions[1]]_vars

\* C2, its case: Select has taken an unknown session while the heap holds
\* sessions, all of them scored above minLS.
C2_Witness ==
    /\ last.op = "Select"
    /\ last.from = "unknown"
    /\ Len(knownSessions) > 0
    /\ MinScore(knownSessions) > minLS

\* C3: when the heap is not empty and its least score is <= minLS or no
\* unknown session is held, Select removes one entry from the heap and
\* returns its session, and that entry's score is the least of all known
\* scores; unknownSessions is untouched.
C3_GoodEnoughRouting ==
    [][(/\ SelectStep
        /\ Len(knownSessions) > 0
        /\ \/ MinScore(knownSessions) <= minLS
           \/ Len(unknownSessions) = 0)
       => LET x == [sess |-> last'.sess,
                    LatencyScore |-> MinScore(knownSessions)]
          IN  /\ last'.from = "known"
              /\ last'.score = MinScore(knownSessions)
              /\ Copies(knownSessions, x) > 0
              /\ Len(knownSessions') = Len(knownSessions) - 1
              /\ \A i \in 1..Len(knownSessions) :
                     Copies(knownSessions', knownSessions[i]) =
                         Copies(knownSessions, knownSessions[i])
                             - (IF knownSessions[i] = x THEN 1 ELSE 0)
              /\ unknownSessions' = unknownSessions]_vars

\* C3, its case: Select has popped a session whose score equals minLS while
\* an unknown session and at least one more known session were held.
C3_Witness ==
    /\ last.op = "Select"
    /\ last.from = "known"
    /\ last.score = minLS
    /\ Len(unknownSessions) > 0
    /\ Len(knownSessions) >= 1

\* The score of held known session s.
ScoreOf(s) ==
    LET i == CHOOSE k \in 1..Len(knownSessions) : knownSessions[k].sess = s
    IN  knownSessions[i].LatencyScore

\* The place of s in the order of Complete calls.
CompletedAt(s) == CHOOSE k \in 1..Len(completions) : completions[k] = s

\* C4: a Select that pops the heap never returns a session b while the
\* heap holds a session a that was completed before b with a strictly
\* smaller score.
C4_HeapOrdering ==
    [][(SelectStep /\ last'.from = "known")
       => \A k \in 1..Len(completions) :
              k < CompletedAt(last'.sess)
                  => ~(ScoreOf(completions[k]) < ScoreOf(last'.sess))]_vars

\* C4, its case: Select has popped a while the heap held at least two more
\* sessions, every one of them with a strictly greater score.
C4_Witness ==
    /\ last.op = "Select"
    /\ last.from = "known"
    /\ Len(knownSessions) >= 2
    /\ \A i \in 1..Len(knownSessions) :
           knownSessions[i].LatencyScore > last.score

\* C5: with no oracle configured, a Select that goes to unknownSessions
\* (no known session, or none good enough) returns the unknown session
\* that arrived first among those held, whatever Add calls came between.
C5_OfflineFifo ==
    [][(/\ SelectStep
        /\ ~stakeRdr
        /\ Len(unknownSessions) > 0
        /\ Len(knownSessions) > 0 => MinScore(knownSessions) > minLS)
       => /\ last'.sess = Head(arrivals)
          /\ last'.from = "unknown"
          /\ arrivals' = Tail(arrivals)
          /\ unknownSessions' = arrivals']_vars

\* C5, its case: an offline Select has returned an unknown session with no
\* known session held and two more unknown sessions waiting.
C5_Witness ==
    /\ last.op = "Select"
    /\ last.from = "unknown"
    /\ last.oracle = "skip"
    /\ Len(knownSessions) = 0
    /\ Len(unknownSessions) >= 2

\* C6: a Select whose oracle call fails returns nil and leaves the whole
\* selector as it was: unknownSessions in its order, the heap, the oracle
\* reference, and so Size().
C6_OracleFailureNonDestructive ==
    [][(SelectStep /\ last'.oracle = "fail")
       => /\ last'.sess = Nil
          /\ unknownSessions' = unknownSessions
          /\ knownSessions' = knownSessions
          /\ stakeRdr' = stakeRdr
          /\ Size' = Size]_vars

\* C6, its case: the oracle call of a Select has failed with unknown and
\* known sessions held.
C6_Witness ==
    /\ last.op = "Select"
    /\ last.oracle = "fail"
    /\ Len(unknownSessions) >= 2
    /\ Len(knownSessions) >= 1

\* The addresses Select asks the oracle about.
Queried(unk) == Range(addrs(unk))

\* A reply as the oracle's contract has it: stakes of queried addresses
\* only, none negative.
WellFormed(stakes, unk) ==
    /\ DOMAIN stakes \subseteq Queried(unk)
    /\ \A a \in DOMAIN stakes : stakes[a] >= 0

\* No two sessions of unk share their address.
DistinctAddrs(unk) ==
    \A i, j \in 1..Len(unk) : i # j => addrs(unk)[i] # addrs(unk)[j]

\* The draws that make the session at index i the winner.
Wins(unk, stakes, i) ==
    {r \in Draws(totalStake(stakes)) : WinnerIndex(unk, stakes, r) = i}

\* C7: stake proportionality.  Wherever Select would call the oracle, for
\* every well-formed reply with totalStake > 0 (the unknown sessions having
\* distinct addresses) each unknown session wins for exactly as many draws
\* r in [0, totalStake) as its stake.
C7_StakeProportional ==
    (CallsOracle /\ DistinctAddrs(unknownSessions))
        => \A stakes \in Replies :
               (WellFormed(stakes, unknownSessions) /\ totalStake(stakes) > 0)
                   => \A i \in 1..Len(unknownSessions) :
                          Cardinality(Wins(unknownSessions, stakes, i)) =
                              StakeOf(stakes, addrs(unknownSessions)[i])

\* C8: zero-stake exclusion.  Wherever Select would call the oracle, for
\* every well-formed reply that gives some unknown session a positive
\* stake, no draw makes a session of stake zero (or of an address the reply
\* lacks) the winner.
C8_ZeroStakeNeverWins ==
    CallsOracle
        => \A stakes \in Replies :
               (/\ WellFormed(stakes, unknownSessions)
                /\ \E i \in 1..Len(unknownSessions) :
                       StakeOf(stakes, addrs(unknownSessions)[i]) > 0)
                   => \A r \in Draws(totalStake(stakes)) :
                          LET w == WinnerIndex(unknownSessions, stakes, r)
                          IN  w # 0 =>
                                  StakeOf(stakes,
                                          addrs(unknownSessions)[w]) > 0

\* C9 as stated: a Select that called the oracle and got zero for every
\* stake returns the unknown session that arrived first among those held.
C9_AllZeroEarliestArrival ==
    [][(SelectStep /\ last'.oracle = "ok" /\ last'.zero)
       => last'.sess = Head(arrivals)]_vars

\* C9, amended: such a Select returns the session at the front of
\* unknownSessions as the slice is ordered now, and removes it by putting
\* the last session in its place.  The front is the earliest arrival only
\* until such a removal has moved a later arrival there.
C9_AllZeroFrontOfSlice ==
    [][(SelectStep /\ last'.oracle = "ok" /\ last'.zero)
       => LET n == Len(unknownSessions)
          IN  /\ last'.sess = unknownSessions[1]
              /\ last'.from = "unknown"
              /\ unknownSessions' =
                     IF n = 1 THEN <<>>
                     ELSE <<unknownSessions[n]>>
                              \o SubSeq(unknownSessions, 2, n - 1)
              /\ knownSessions' = knownSessions]_vars

\* C9, its case: an all-zero reply has made Select take the front session,
\* and the sessions left are no longer in their order of arrival.
C9_Witness ==
    /\ last.op = "Select"
    /\ last.oracle = "ok"
    /\ last.zero
    /\ last.from = "unknown"
    /\ Len(unknownSessions) >= 2
    /\ unknownSessions # arrivals

\* C10 as stated: after any sequence of calls no session is held twice,
\* in one collection or across the two.
C10_AtMostOnce == \A s \in Sessions : HeldCount(s) <= 1

\* Times session s is handed in by the step, if it is an Add or a Complete.
GivenNow(s) ==
    IF last'.op \in {"Add", "Complete"} THEN outstanding'[s] - outstanding[s]
    ELSE 0

\* C10, amended: no call makes a session held twice, provided Add and
\* Complete are given only sessions the selector does not hold, each once.
\* Neither checks: any other Add or Complete makes a session held twice.
C10_AtMostOnceIfGivenNew ==
    [][(/\ \A s \in Sessions : HeldCount(s) <= 1
        /\ \A s \in Sessions : HeldCount(s) + GivenNow(s) <= 1)
       => /\ \A s \in Sessions : HeldCount(s)' <= 1
          /\ \A s \in Sessions :
                 HeldCount(s)' =
                     HeldCount(s) + GivenNow(s)
                         - (IF last'.op = "Select" /\ last'.sess = s
                            THEN 1 ELSE 0)
                 \/ last'.op = "Clear"]_vars

\* C10, its case: after a Select, sessions are held in both collections,
\* none twice, and the selector is full but for the session returned.
C10_Witness ==
    /\ last.op = "Select"
    /\ last.sess # Nil
    /\ Len(unknownSessions) >= 1
    /\ Len(knownSessions) >= 1
    /\ Size = MaxHeld - 1
    /\ \A s \in Sessions : HeldCount(s) <= 1

\* A step of LIFOSelector.Select (every call records itself in lifoLast).
LIFOSelectStep == lifoLast'.op = "Select"

\* The list holds one whole batch and nothing else: the last call was an
\* Add, and every entry came with it.
FreshBatch ==
    /\ lifoLast.op = "Add"
    /\ Len(lifo) > 0
    /\ \A i \in 1..Len(lifo) : lifo[i].via = "Add" /\ lifo[i].at = 1

\* C11 as stated: after one batch was added to an empty LIFOSelector, the
\* next Select returns the first element of that batch (A after
\* Add([A, B])).
C11_ReturnsFirstOfBatch ==
    [][FreshBatch /\ LIFOSelectStep => lifoLast'.entry.pos = 1]_vars

\* C11, amended: after one batch was added to an empty LIFOSelector, the
\* next Select returns the last element of that batch (B after
\* Add([A, B])) and leaves the elements before it.
C11_ReturnsLastOfBatch ==
    [][FreshBatch /\ LIFOSelectStep =>
          /\ ~lifoLast'.panic
          /\ lifoLast'.entry.pos = Len(lifo)
          /\ lifoLast'.entry = lifo[Len(lifo)]
          /\ lifo' = SubSeq(lifo, 1, Len(lifo) - 1)]_vars

\* C11, its case: of a batch of two, the second element was returned and
\* the first is still held.
C11_Witness ==
    /\ lifoLast.op = "Select"
    /\ lifoLast.entry.via = "Add"
    /\ lifoLast.entry.pos = 2
    /\ Len(lifo) = 1
    /\ lifo[1].via = "Add"
    /\ lifo[1].pos = 1

\* The indices of the entries of the list that Complete brought.
CompletedHeld == {i \in 1..Len(lifo) : lifo[i].via = "Complete"}

\* C12: warm reuse.  A Select right after Complete(C) returns the entry
\* that Complete stored; and whenever the list holds entries brought by
\* Complete, Select returns the one completed last, before any entry that
\* Add brought, whatever Adds were made in between.
C12_WarmReuse ==
    [][LIFOSelectStep =>
          /\ lifoLast.op = "Complete" => lifoLast'.entry = lifoLast.entry
          /\ CompletedHeld # {} =>
                 /\ ~lifoLast'.panic
                 /\ lifoLast'.entry.via = "Complete"
                 /\ \A i \in CompletedHeld : lifo[i].at <= lifoLast'.entry.at
                 /\ \E i \in CompletedHeld :
                        /\ lifoLast'.entry = lifo[i]
                        /\ Len(lifo') = Len(lifo) - 1]_vars

\* C12, its case: Select returned a completed session while the list held
\* a session of an Add made after that Complete.
C12_Witness ==
    /\ lifoLast.op = "Select"
    /\ lifoLast.entry.via = "Complete"
    /\ \E i \in 1..Len(lifo) :
           lifo[i].via = "Add" /\ lifo[i].at >= lifoLast.entry.at

\* The indices of the entries of the list that Add brought.
AddedHeld == {i \in 1..Len(lifo) : lifo[i].via = "Add"}

\* C13: batch ordering.  While the list holds no entry brought by Complete,
\* Select returns an entry of the earliest Add that still has entries in
\* the list: every session of an earlier Add is returned before any session
\* of a later one.
C13_EarlierBatchFirst ==
    [][LIFOSelectStep /\ CompletedHeld = {} /\ AddedHeld # {} =>
          /\ ~lifoLast'.panic
          /\ lifoLast'.entry.via = "Add"
          /\ \A i \in AddedHeld : lifoLast'.entry.at <= lifo[i].at
          /\ \E i \in AddedHeld :
                 /\ lifoLast'.entry = lifo[i]
                 /\ Len(lifo') = Len(lifo) - 1]_vars

\* C13, its case: Select returned a session of the earlier of two Adds
\* while the list held the rest of that batch and the later batch.
C13_Witness ==
    /\ lifoLast.op = "Select"
    /\ lifoLast.entry.via = "Add"
    /\ lifoLast.entry.at = 1
    /\ CompletedHeld = {}
    /\ \E i, j \in AddedHeld : lifo[i].at = 1 /\ lifo[j].at = 2

\* C14: Select on an empty LIFOSelector.  A Select called with Size() = 0
\* returns nothing, not even nil: it panics on the index out of range,
\* leaves the list as it was, and no call follows the panic.  A Select
\* called with Size() > 0 returns a session and takes exactly one entry off
\* the list.
C14_EmptySelectPanics ==
    [][/\ ~lifoLast.panic
       /\ LIFOSelectStep =>
              IF lifoSize = 0
              THEN /\ lifoLast'.panic
                   /\ lifoLast'.entry = NoEntry
                   /\ lifo' = lifo
              ELSE /\ ~lifoLast'.panic
                   /\ lifoLast'.entry.sess \in Sessions
                   /\ Len(lifo') = lifoSize - 1]_vars

\* C14, its case: Select was called on a LIFOSelector that held nothing.
C14_Witness ==
    /\ lifoLast.op = "Select"
    /\ lifoLast.panic
    /\ lifoSize = 0

\* C15: Clear resets fully.  After Clear, Size() is 0, for the
\* MinLSSelector and for the LIFOSelector; and the Select that follows a
\* Clear of the MinLSSelector returns nil without calling the oracle and
\* leaves the selector empty.
C15_ClearResets ==
    [][/\ last'.op = "Clear" => Size' = 0 /\ ~stakeRdr'
       /\ lifoLast'.op = "Clear" => lifoSize' = 0
       /\ last.op = "Clear" /\ SelectStep =>
              /\ last'.sess = Nil
              /\ last'.oracle = "skip"
              /\ Size' = 0]_vars

\* C15, its case: Clear was called on a MinLSSelector built with an oracle
\* that held sessions.
C15_Witness ==
    /\ last.op = "Clear"
    /\ last.dropped > 0
    /\ ctorStakeRdr
    /\ Size = 0

\* The elements of q after its first n.
After(q, n) == SubSeq(q, n + 1, Len(q))

\* C16: the frame of Add and Complete.  Add puts its sessions, in the order
\* given, behind the unknown sessions already held, which keep their order,
\* and leaves the heap as it was; Complete puts exactly one entry, the
\* session given, into the heap and leaves the unknown sessions as they
\* were; neither calls the oracle.
C16_AddCompleteFrame ==
    [][/\ last'.op = "Add" =>
              /\ Len(unknownSessions') > Len(unknownSessions)
              /\ SubSeq(unknownSessions', 1, Len(unknownSessions))
                     = unknownSessions
              /\ After(unknownSessions', Len(unknownSessions))
                     = After(arrivals', Len(arrivals))
              /\ knownSessions' = knownSessions
              /\ last'.oracle = "skip" /\ last'.query = <<>>
       /\ last'.op = "Complete" =>
              /\ Len(knownSessions') = Len(knownSessions) + 1
              /\ \E x \in Range(knownSessions') :
                     /\ x.sess = completions'[Len(completions')]
                     /\ \A y \in Range(knownSessions') :
                            Copies(knownSessions', y)
                                = Copies(knownSessions, y)
                                      + (IF y = x THEN 1 ELSE 0)
              /\ unknownSessions' = unknownSessions
              /\ last'.oracle = "skip" /\ last'.query = <<>>]_vars

\* C16, its case: Add has put a batch behind unknown sessions already held.
C16_Witness ==
    /\ last.op = "Add"
    /\ Len(unknownSessions) > MaxBatch

\* Select goes to the unknown sessions, holds some, and has an oracle: the
\* heap is empty or its least score is above minLS.
OracleDue ==
    /\ stakeRdr
    /\ Len(unknownSessions) > 0
    /\ Len(knownSessions) > 0 => MinScore(knownSessions) > minLS

\* The call of Select that made this step called Stakes.
Asked == last'.oracle # "skip"

\* C17 as stated: Select calls the oracle at most once, only when an oracle
\* is configured, the call goes to the unknown sessions and some are held;
\* the argument is the deduplicated set of the addresses of the unknown
\* sessions, no address twice.
C17_DeduplicatedQuery ==
    [][SelectStep =>
          /\ Asked => OracleDue
          /\ Asked =>
                 /\ Range(last'.query)
                        = {Recipient(unknownSessions[i]) :
                               i \in 1..Len(unknownSessions)}
                 /\ \A i, j \in 1..Len(last'.query) :
                        i # j => last'.query[i] # last'.query[j]]_vars

\* C17, amended: Select calls the oracle exactly when an oracle is
\* configured, the call goes to the unknown sessions and some are held, and
\* then once; the argument holds one address for each unknown session, in
\* the order of the slice, an address shared by two sessions twice.
C17_QueryPerSession ==
    [][SelectStep =>
          /\ Asked <=> OracleDue
          /\ ~Asked => last'.query = <<>>
          /\ Asked =>
                 /\ Len(last'.query) = Len(unknownSessions)
                 /\ \A i \in 1..Len(unknownSessions) :
                        last'.query[i] = Recipient(unknownSessions[i])]_vars

\* C17, its case: the oracle was asked for the stakes of unknown sessions
\* two of which share an address.
C17_Witness ==
    /\ last.op = "Select"
    /\ last.oracle = "ok"
    /\ \E i, j \in 1..Len(last.query) :
           i # j /\ last.query[i] = last.query[j]

\* The running value after the stakes of the first k unknown sessions were
\* subtracted from the draw r.
RECURSIVE RunningValue(_, _, _)
RunningValue(stakes, r, k) ==
    IF k = 0 THEN r
    ELSE RunningValue(stakes, r, k - 1)
             - StakeOf(stakes, Recipient(unknownSessions[k]))

\* The walk over the unknown sessions ends without the running value
\* reaching <= 0.
NeverReached(stakes, r) ==
    \A k \in 1..Len(unknownSessions) : RunningValue(stakes, r, k) > 0

\* C18: the degenerate draw.  When the oracle call succeeds and the walk
\* over the unknown sessions ends without the running value reaching <= 0,
\* for whatever reply and draw, the selection returns nil and keeps the
\* unknown sessions; and a Select that returns nil after a successful
\* oracle call leaves the unknown sessions and the heap as they were.
C18_DegenerateDraw ==
    /\ [](stakeRdr /\ Len(unknownSessions) > 0 =>
             \A stakes \in Replies : \A r \in Draws(totalStake(stakes)) :
                 NeverReached(stakes, r) =>
                     LET res == selectUnknownSession(unknownSessions, stakeRdr,
                                                     FALSE, stakes, r)
                     IN  /\ res.sess = Nil
                         /\ res.unknown = unknownSessions
                         /\ res.oracle = "ok")
    /\ [][SelectStep /\ last'.oracle = "ok" /\ last'.sess = Nil =>
              /\ unknownSessions' = unknownSessions
              /\ knownSessions' = knownSessions]_vars

\* C18, its case: with unknown sessions held, the oracle replied and Select
\* returned nil.
C18_Witness ==
    /\ last.op = "Select"
    /\ last.oracle = "ok"
    /\ last.sess = Nil
    /\ Len(unknownSessions) > 0

\* ----------------------------------------------------------- draining
\* The caller stops feeding the selector: from here on it only calls
\* Select, and the oracle, when it replies, keeps to its contract.
StopFeeding ==
    /\ ~draining
    /\ draining' = TRUE
    /\ UNCHANGED <<unknownSessions, knownSessions, stakeRdr, minLS, last,
                   arrivals, completions, outstanding, ctorStakeRdr, lifoVars>>

\* A Select whose oracle call replies stakes as its contract has them.
SelectOracleKeeps ==
    /\ CallsOracle
    /\ \E stakes \in Replies :
           /\ WellFormed(stakes, unknownSessions)
           /\ \E r \in Draws(totalStake(stakes)) : Select(FALSE, stakes, r)

DrainOffline == draining /\ SelectOffline

DrainOracleKeeps == draining /\ SelectOracleKeeps

DrainOracleFails == draining /\ SelectOracleFails

NextDrain ==
    \/ ~draining /\ AddNew
    \/ ~draining /\ CompleteNew
    \/ ~draining /\ SelectOffline
    \/ ~draining /\ SelectOracleFails
    \/ ~draining /\ SelectOracleReplies
    \/ ~draining /\ DoClear
    \/ StopFeeding
    \/ DrainOffline
    \/ DrainOracleKeeps
    \/ DrainOracleFails

\* The draining caller keeps calling Select, and the oracle does not fail
\* for ever: a Select that does not end in a failed oracle call is taken
\* sooner or later.
SpecDrain ==
    /\ Init
    /\ [][NextDrain]_vars
    /\ WF_vars(DrainOffline)
    /\ WF_vars(DrainOracleKeeps)

\* C19: the drain terminates.  While the caller only calls Select and the
\* oracle replies non-negative stakes of queried addresses only, a Select
\* whose oracle call did not fail returns nil exactly when Size() is 0 and
\* otherwise returns a session and lowers Size() by one; and with the
\* oracle failing only finitely often, Size() = 0 is reached.
C19_DrainTerminates ==
    /\ [][draining /\ SelectStep /\ last'.oracle # "fail" =>
              /\ last'.sess = Nil <=> Size = 0
              /\ last'.sess # Nil => Size' = Size - 1
              /\ last'.sess = Nil => Size' = Size]_vars
    /\ [](draining => <>(Size = 0))

\* C19, its case: the caller has drained a selector with an oracle, the
\* last session coming from a reply that kept to the contract.
C19_Witness ==
    /\ draining
    /\ Size = 0
    /\ last.op = "Select"
    /\ last.oracle = "ok"
    /\ last.sess # Nil

\* Clear was called on a selector that NewMinLSSelector gave an oracle:
\* only Clear takes the stakeRdr away.
Cleared == ctorStakeRdr /\ ~stakeRdr

\* C20: after Clear the selector stays offline.  Clear takes the oracle
\* away; once Clear was called on a selector built with an oracle, no call
\* brings the oracle back, no Select calls it, and a Select that goes to
\* the unknown sessions returns the one that was added first among those
\* held, the front of the slice.
C20_OfflineAfterClear ==
    [][/\ last'.op = "Clear" /\ ctorStakeRdr => Cleared'
       /\ Cleared =>
              /\ Cleared'
              /\ SelectStep =>
                     /\ last'.oracle = "skip"
                     /\ last'.query = <<>>
                     /\ last'.from = "unknown" =>
                            /\ last'.sess = Head(arrivals)
                            /\ last'.sess = unknownSessions[1]
                            /\ unknownSessions' = Tail(unknownSessions)
                     /\ Len(unknownSessions) > 0 /\ last'.from # "known" =>
                            last'.from = "unknown"]_vars

\* C20, its case: after a Clear of a selector built with an oracle, Select
\* returned the first of several unknown sessions added since.
C20_Witness ==
    /\ Cleared
    /\ last.op = "Select"
    /\ last.from = "unknown"
    /\ Len(unknownSessions) > 0

====
